---- MODULE Spec2Model ----
(***************************************************************************)
(* A model of statusline (cmd/statusline/main.go): one invocation reads    *)
(* stdin, runs git subprocesses in sequence, and prints one line.          *)
(*                                                                         *)
(* Strings are sequences of one-byte strings, so that trimming, splitting, *)
(* prefix tests and number parsing are computed as the code computes them. *)
(* Four multi-byte or unprintable items are written as one element each:   *)
(* "ESC" (byte 0x1b), "ICON" (U+2387), "UP" (U+2191) and "DOWN" (U+2193).  *)
(***************************************************************************)
EXTENDS Integers, Sequences, FiniteSets, TLC

\* ------------------------------------------------------------------ text

DigitChars == <<"0", "1", "2", "3", "4", "5", "6", "7", "8", "9">>

IsDigit(c) == \E i \in 1..10 : DigitChars[i] = c

DigitVal(c) == (CHOOSE i \in 1..10 : DigitChars[i] = c) - 1

\* unicode.IsSpace on the bytes the model uses
IsSpace(c) == c \in {" ", "\t", "\n", "\r"}

RECURSIVE TrimLeft(_)
TrimLeft(s) ==
    IF s # <<>> /\ IsSpace(Head(s)) THEN TrimLeft(Tail(s)) ELSE s

RECURSIVE TrimRight(_)
TrimRight(s) ==
    IF s # <<>> /\ IsSpace(s[Len(s)])
    THEN TrimRight(SubSeq(s, 1, Len(s) - 1)) ELSE s

\* strings.TrimSpace
TrimSpace(s) == TrimRight(TrimLeft(s))

\* strings.HasPrefix
HasPrefix(s, p) == Len(s) >= Len(p) /\ SubSeq(s, 1, Len(p)) = p

\* strings.TrimPrefix
TrimPrefix(s, p) ==
    IF HasPrefix(s, p) THEN SubSeq(s, Len(p) + 1, Len(s)) ELSE s

\* strings.Contains
Contains(s, sub) ==
    \E i \in 1..(Len(s) - Len(sub) + 1) : SubSeq(s, i, i + Len(sub) - 1) = sub

\* strings.Index, 0 when sub does not occur (Go: -1), else the 1-based place
Index(s, sub) ==
    IF Contains(s, sub)
    THEN CHOOSE i \in 1..(Len(s) - Len(sub) + 1) :
           /\ SubSeq(s, i, i + Len(sub) - 1) = sub
           /\ \A j \in 1..(i - 1) : SubSeq(s, j, j + Len(sub) - 1) # sub
    ELSE 0

\* strings.Split(s, sep) for a one-byte sep: the pieces between separators
RECURSIVE Split(_, _)
Split(s, sep) ==
    LET i == Index(s, <<sep>>) IN
    IF i = 0 THEN <<s>>
    ELSE <<SubSeq(s, 1, i - 1)>> \o Split(SubSeq(s, i + 1, Len(s)), sep)

\* strings.SplitN(s, sep, 2): cut at the first separator only
SplitN2(s, sep) ==
    LET i == Index(s, <<sep>>) IN
    IF i = 0 THEN <<s>>
    ELSE <<SubSeq(s, 1, i - 1), SubSeq(s, i + 1, Len(s))>>

\* strings.Fields: the maximal runs of non-space bytes
RECURSIVE Fields(_)
Fields(s) ==
    LET t == TrimLeft(s) IN
    IF t = <<>> THEN <<>>
    ELSE LET n == IF \E i \in 1..Len(t) : IsSpace(t[i])
                  THEN (CHOOSE i \in 1..Len(t) :
                          IsSpace(t[i]) /\ \A j \in 1..(i - 1) : ~IsSpace(t[j])) - 1
                  ELSE Len(t)
         IN <<SubSeq(t, 1, n)>> \o Fields(SubSeq(t, n + 1, Len(t)))

\* strings.Join(parts, sep)
RECURSIVE Join(_, _)
Join(parts, sep) ==
    IF parts = <<>> THEN <<>>
    ELSE IF Len(parts) = 1 THEN parts[1]
    ELSE parts[1] \o sep \o Join(Tail(parts), sep)

\* fmt.Sprintf("%d", n) for n >= 0
RECURSIVE Itoa(_)
Itoa(n) ==
    IF n < 10 THEN <<DigitChars[n + 1]>>
    ELSE Itoa(n \div 10) \o <<DigitChars[(n % 10) + 1]>>

RECURSIVE StripSlashes(_)
StripSlashes(p) ==
    IF p # <<>> /\ p[Len(p)] = "/"
    THEN StripSlashes(SubSeq(p, 1, Len(p) - 1)) ELSE p

RECURSIVE AfterLastSlash(_)
AfterLastSlash(p) ==
    LET i == Index(p, <<"/">>) IN
    IF i = 0 THEN p ELSE AfterLastSlash(SubSeq(p, i + 1, Len(p)))

\* Base without the "." it gives the empty path
BaseEmptyMutant(path) ==
    LET p == AfterLastSlash(StripSlashes(path)) IN
    IF path # <<>> /\ p = <<>> THEN <<"/">> ELSE p

\* filepath.Base (Unix): "." for the empty path, "/" for a path of slashes
\* only, else the last element with trailing slashes removed
Base(path) ==
    IF path = <<>> THEN <<".">>
    ELSE LET p == AfterLastSlash(StripSlashes(path)) IN
         IF p = <<>> THEN <<"/">> ELSE p

\* ------------------------------------------------ 64-bit integers

\* An int64 (time.Duration) is eight base-256 limbs, least significant first,
\* in two's complement: multiplication wraps at 2^64 as Go's does.
LimbBase == 256

Width64 == 8

RECURSIVE Limbs(_, _)
Limbs(n, k) ==
    IF k = 0 THEN <<>> ELSE <<n % LimbBase>> \o Limbs(n \div LimbBase, k - 1)

\* the int64 of a natural number below 2^31
I64(n) == Limbs(n, Width64)

Limb(a, i) == IF i <= Len(a) THEN a[i] ELSE 0

RECURSIVE MulCol(_, _, _, _)
MulCol(a, b, k, i) ==
    IF i > k THEN 0 ELSE Limb(a, i) * Limb(b, k + 1 - i) + MulCol(a, b, k, i + 1)

RECURSIVE MulFrom(_, _, _, _, _)
MulFrom(a, b, k, carry, w) ==
    IF k > w THEN <<>>
    ELSE LET t == MulCol(a, b, k, 1) + carry IN
         <<t % LimbBase>> \o MulFrom(a, b, k + 1, t \div LimbBase, w)

\* a * b truncated to w limbs
MulW(a, b, w) == MulFrom(a, b, 1, 0, w)

\* Go's int64 multiplication: the low 64 bits of the product
Mul64(a, b) == MulW(a, b, Width64)

IsNeg64(a) == a[Width64] >= LimbBase \div 2

\* -a in two's complement: a * (2^64 - 1) mod 2^64
Neg64(a) == Mul64(a, [i \in 1..Width64 |-> LimbBase - 1])

RECURSIVE UGe(_, _, _)
UGe(a, b, i) ==
    IF i = 0 THEN TRUE
    ELSE IF a[i] # b[i] THEN a[i] > b[i]
    ELSE UGe(a, b, i - 1)

\* a >= b on int64
Ge64(a, b) ==
    IF IsNeg64(a) # IsNeg64(b) THEN IsNeg64(b) ELSE UGe(a, b, Width64)

NanosPerSecond == 1000000000

\* time.Second and time.Minute, in nanoseconds
Second == I64(NanosPerSecond)

Minute == Mul64(I64(60), Second)

\* a whole number of seconds (of either sign, below 2^31) as a Duration
SecondsDuration(s) ==
    IF s >= 0 THEN Mul64(I64(s), Second) ELSE Neg64(Mul64(I64(0 - s), Second))

\* ------------------------------------------------ number parsing

RECURSIVE DigitsValue(_, _)
DigitsValue(s, acc) ==
    IF s = <<>> THEN acc ELSE DigitsValue(Tail(s), acc * 10 + DigitVal(Head(s)))

AllDigits(s) == \A i \in 1..Len(s) : IsDigit(s[i])

\* strconv.Atoi / strconv.ParseInt(s, 10, 64) on texts short enough that the
\* value fits the integer: [ok, n].  One optional sign, then digits only.
Atoi(s) ==
    LET signed == s # <<>> /\ Head(s) \in {"+", "-"}
        body   == IF signed THEN Tail(s) ELSE s
    IN IF body = <<>> \/ ~AllDigits(body) THEN [ok |-> FALSE, n |-> 0]
       ELSE [ok |-> TRUE,
             n  |-> IF signed /\ Head(s) = "-"
                    THEN 0 - DigitsValue(body, 0) ELSE DigitsValue(body, 0)]

DefaultMinutes == 30

\* getFetchInterval, given the value of STATUSLINE_FETCH_INTERVAL
getFetchInterval(env) ==
    LET r == Atoi(env) IN
    IF env # <<>> /\ r.ok /\ r.n > 0 THEN Mul64(I64(r.n), Minute)
    ELSE Mul64(I64(DefaultMinutes), Minute)

\* ------------------------------------------------ the fetch gate

FetchWord == <<"f", "e", "t", "c", "h">>

\* shouldFetch, lines 231-241: the loop over the reflog line's fields, from
\* field i (1-based).  A field after the first that contains "fetch" makes
\* the second field be parsed as the timestamp, in seconds.
RECURSIVE reflogLoop(_, _, _, _)
reflogLoop(fields, i, interval, now) ==
    IF i > Len(fields) THEN TRUE
    ELSE IF Contains(fields[i], FetchWord) /\ i > 1 /\ Atoi(fields[2]).ok
         THEN Ge64(SecondsDuration(now - Atoi(fields[2]).n), interval)
         ELSE reflogLoop(fields, i + 1, interval, now)

\* shouldFetch once the reflog text is known: TRUE when a fetch is due
reflogGate(reflog, interval, now) ==
    IF reflog = <<>> THEN TRUE
    ELSE reflogLoop(Fields(reflog), 1, interval, now)

\* ------------------------------------------------ status parsing

RECURSIVE leadingDigits(_, _)
leadingDigits(s, n) ==
    IF s = <<>> \/ ~IsDigit(Head(s)) THEN n
    ELSE leadingDigits(Tail(s), n * 10 + DigitVal(Head(s)))

\* parseSigned that honours a minus sign
parseSignedNegativeMutant(s) ==
    IF s = <<>> THEN 0
    ELSE IF Head(s) = "-" THEN 0 - leadingDigits(Tail(s), 0)
    ELSE leadingDigits(IF Head(s) = "+" THEN Tail(s) ELSE s, 0)

\* parseSigned
parseSigned(s) ==
    IF s = <<>> THEN 0
    ELSE leadingDigits(IF Head(s) \in {"+", "-"} THEN Tail(s) ELSE s, 0)

BranchHead == <<"#", " ", "b", "r", "a", "n", "c", "h", ".", "h", "e", "a", "d">>

BranchAb == <<"#", " ", "b", "r", "a", "n", "c", "h", ".", "a", "b">>

ParsedZero ==
    [branch |-> <<>>, ahead |-> 0, behind |-> 0,
     hasTracked |-> FALSE, hasUntracked |-> FALSE]

\* parseLine that stops classifying at the first untracked entry
parseLineStopMutant(raw, r) ==
    LET ln == TrimSpace(raw) IN
    IF ln = <<>> \/ r.hasUntracked THEN r
    ELSE IF HasPrefix(ln, <<"#">>) THEN
        IF HasPrefix(ln, BranchHead \o <<" ">>)
        THEN [r EXCEPT !.branch = TrimSpace(TrimPrefix(ln, BranchHead))]
        ELSE IF HasPrefix(ln, BranchAb \o <<" ">>)
        THEN LET f == Fields(TrimPrefix(ln, BranchAb)) IN
             IF Len(f) = 2
             THEN [r EXCEPT !.ahead = parseSigned(f[1]),
                            !.behind = parseSigned(f[2])]
             ELSE r
        ELSE r
    ELSE IF HasPrefix(ln, <<"?", " ">>) THEN [r EXCEPT !.hasUntracked = TRUE]
    ELSE IF HasPrefix(ln, <<"1", " ">>) \/ HasPrefix(ln, <<"2", " ">>)
         THEN [r EXCEPT !.hasTracked = TRUE]
    ELSE r

\* parseStatus, lines 158-181: one line's effect on the named results
parseLine(raw, r) ==
    LET ln == TrimSpace(raw) IN
    IF ln = <<>> THEN r
    ELSE IF HasPrefix(ln, <<"#">>) THEN
        IF HasPrefix(ln, BranchHead \o <<" ">>)
        THEN [r EXCEPT !.branch = TrimSpace(TrimPrefix(ln, BranchHead))]
        ELSE IF HasPrefix(ln, BranchAb \o <<" ">>)
        THEN LET f == Fields(TrimPrefix(ln, BranchAb)) IN
             IF Len(f) = 2
             THEN [r EXCEPT !.ahead = parseSigned(f[1]),
                            !.behind = parseSigned(f[2])]
             ELSE r
        ELSE r
    ELSE IF HasPrefix(ln, <<"?", " ">>) THEN [r EXCEPT !.hasUntracked = TRUE]
    ELSE IF HasPrefix(ln, <<"1", " ">>) \/ HasPrefix(ln, <<"2", " ">>)
         THEN [r EXCEPT !.hasTracked = TRUE]
    ELSE r

RECURSIVE parseLines(_, _)
parseLines(lines, r) ==
    IF lines = <<>> THEN r ELSE parseLines(Tail(lines), parseLine(Head(lines), r))

\* parseStatus
parseStatus(s) == parseLines(Split(s, "\n"), ParsedZero)

\* ------------------------------------------------ rendering

colGreen == <<"3", "8", ";", "5", ";", "8", "2">>

colYellow == <<"3", "8", ";", "5", ";", "2", "2", "0">>

colRed == <<"3", "8", ";", "5", ";", "1", "9", "6">>

maxBranchLen == 48

One == <<"1">>

Reset == <<"ESC", "[", "0", "m">>

\* colorize without the test of STATUSLINE_NO_COLOR
colorizeAlwaysMutant(s, col, noColor) ==
    <<"ESC", "[">> \o col \o <<"m">> \o s \o Reset

\* colorize, given the value of STATUSLINE_NO_COLOR
colorize(s, col, noColor) ==
    IF noColor = One THEN s
    ELSE <<"ESC", "[">> \o col \o <<"m">> \o s \o Reset

\* colorizeBold, given the value of STATUSLINE_NO_COLOR
colorizeBold(s, col, noColor) ==
    IF noColor = One THEN s
    ELSE <<"ESC", "[", "1", ";">> \o col \o <<"m">> \o s \o Reset

\* shorten
shorten(s, maxLen) ==
    IF maxLen <= 4 \/ Len(s) <= maxLen THEN s
    ELSE SubSeq(s, 1, maxLen - 3) \o <<".", ".", ".">>

\* iconCol with the two cases of the switch in the other order
iconColTrackedFirstMutant(ri) ==
    IF ri.HasTracked THEN colYellow
    ELSE IF ri.HasUntracked THEN colRed
    ELSE colGreen

\* render, lines 101-107: the icon's colour
iconCol(ri) ==
    IF ri.HasUntracked THEN colRed
    ELSE IF ri.HasTracked THEN colYellow
    ELSE colGreen

\* arrows with the behind marker appended first
arrowsBehindFirstMutant(ri, noColor) ==
    (IF ri.Behind > 0
     THEN <<" ">> \o colorize(<<"DOWN">> \o Itoa(ri.Behind), colRed, noColor)
     ELSE <<>>)
    \o (IF ri.Ahead > 0
        THEN <<" ">> \o colorize(<<"UP">> \o Itoa(ri.Ahead), colGreen, noColor)
        ELSE <<>>)

\* render, lines 110-116
arrows(ri, noColor) ==
    (IF ri.Ahead > 0
     THEN <<" ">> \o colorize(<<"UP">> \o Itoa(ri.Ahead), colGreen, noColor)
     ELSE <<>>)
    \o (IF ri.Behind > 0
        THEN <<" ">> \o colorize(<<"DOWN">> \o Itoa(ri.Behind), colRed, noColor)
        ELSE <<>>)

\* render without the test of IsGit
renderNoGitCheckMutant(ri, noColor) ==
    ri.Project \o <<" ", "o", "n", " ">>
    \o colorizeBold(<<"ICON">>, iconCol(ri), noColor) \o <<" ">>
    \o shorten(ri.Branch, maxBranchLen) \o arrows(ri, noColor)

\* render, given the value of STATUSLINE_NO_COLOR
render(ri, noColor) ==
    IF ~ri.IsGit THEN ri.Project
    ELSE ri.Project \o <<" ", "o", "n", " ">>
         \o colorizeBold(<<"ICON">>, iconCol(ri), noColor) \o <<" ">>
         \o shorten(ri.Branch, maxBranchLen) \o arrows(ri, noColor)

\* ------------------------------------------------ input resolution

\* Standard input is a sequence of JSON tokens [t, v]: "lbrace", "rbrace",
\* "colon", "comma", "num" (any non-string scalar), and "str" with its
\* decoded text v.  Objects are flat; keys are compared as written.
Tok(t) == [t |-> t, v |-> <<>>]

Str(v) == [t |-> "str", v |-> v]

IsValue(tok) == tok.t \in {"str", "num"}

\* the token sequence between the braces is pair (comma pair)*
RECURSIVE ValidPairs(_)
ValidPairs(ts) ==
    /\ Len(ts) >= 3
    /\ ts[1].t = "str" /\ ts[2].t = "colon" /\ IsValue(ts[3])
    /\ \/ Len(ts) = 3
       \/ Len(ts) > 4 /\ ts[4].t = "comma" /\ ValidPairs(SubSeq(ts, 5, Len(ts)))

\* json.Valid, on the model's tokens
ValidJSON(ts) ==
    \/ Len(ts) = 1 /\ IsValue(ts[1])
    \/ /\ Len(ts) >= 2
       /\ ts[1].t = "lbrace" /\ ts[Len(ts)].t = "rbrace"
       /\ \/ Len(ts) = 2
          \/ ValidPairs(SubSeq(ts, 2, Len(ts) - 1))

CwdKey == <<"c", "w", "d">>

\* json.Unmarshal into input{Cwd}: each "cwd" member holding a string sets
\* the field, in order; a member of another type leaves it alone
RECURSIVE CwdOfPairs(_, _)
CwdOfPairs(ts, cur) ==
    IF Len(ts) < 3 THEN cur
    ELSE CwdOfPairs(SubSeq(ts, 5, Len(ts)),
                    IF ts[1].v = CwdKey /\ ts[3].t = "str" THEN ts[3].v ELSE cur)

Unmarshal(ts) ==
    IF ValidJSON(ts) /\ ts[1].t = "lbrace"
    THEN CwdOfPairs(SubSeq(ts, 2, Len(ts) - 1), <<>>)
    ELSE <<>>

\* readCwd without the strings.TrimSpace
readCwdNoTrimMutant(ts) == IF ts = <<>> THEN <<>> ELSE Unmarshal(ts)

\* readCwd
readCwd(ts) == IF ts = <<>> THEN <<>> ELSE TrimSpace(Unmarshal(ts))

\* ------------------------------------------------ the invocation

VARIABLES
    pc,            \* where main is: start, root, gate, reflog, up, fetch,
                   \* status, sha, print, done
    inv,           \* invocations started so far
    now,           \* the wall clock, in seconds
    envFetch,      \* STATUSLINE_FETCH
    envInterval,   \* STATUSLINE_FETCH_INTERVAL
    envNoColor,    \* STATUSLINE_NO_COLOR
    showVersion,   \* -v / -version was given
    stdin,         \* standard input, as JSON tokens
    procDir,       \* the process's current directory
    repoUpstream,  \* the repository: the branch's upstream, <<>> if none
    repoReflog,    \* the repository: newest reflog line of the upstream
    repoStatus,    \* the repository: what git status prints
    cwd,           \* main's cwd
    root,          \* collect's root
    interval,      \* shouldFetch's interval
    gateUp,        \* shouldFetch's up
    gateReflog,    \* shouldFetch's reflog
    gate,          \* shouldFetch's answer: "unset", "true", "false"
    up,            \* collect's up
    status,        \* collect's status
    ri,            \* collect's repoInfo
    cmds,          \* the git subprocesses run by this invocation, in order
    out            \* the lines printed by this invocation

vars ==
    <<pc, inv, now, envFetch, envInterval, envNoColor, showVersion, stdin,
      procDir, repoUpstream, repoReflog, repoStatus, cwd, root, interval,
      gateUp, gateReflog, gate, up, status, ri, cmds, out>>

config == <<envFetch, envInterval, envNoColor, stdin, procDir>>

repo == <<repoUpstream, repoStatus>>

\* The argument lists of the six git commands; "<up>", "<remote>" and
\* "<branch>" stand for the values the call is given, recorded with it.
ArgsRoot == <<"rev-parse", "--show-toplevel">>

ArgsUpstream ==
    <<"rev-parse", "--abbrev-ref", "--symbolic-full-name", "@{u}">>

ArgsReflog == <<"reflog", "show", "--date=unix", "<up>", "-1">>

ArgsFetch ==
    <<"fetch", "--quiet", "--no-progress", "--prune", "<remote>", "<branch>">>

ArgsStatus ==
    <<"status", "--porcelain=2", "--branch", "--ignore-submodules=dirty">>

ArgsSha == <<"rev-parse", "--short", "HEAD">>

\* exec.Cmd.Dir: the empty string runs the command in the process's directory
EffectiveDir(dir) == IF dir = <<>> THEN procDir ELSE dir

\* one call of git(dir, args...): what is recorded of it, and what it returned
Cmd(dir, args, extra, resp) ==
    [dir |-> EffectiveDir(dir), args |-> args, extra |-> extra, resp |-> resp]

\* git, lines 136-139: what the caller gets of the bytes the subprocess wrote
\* to its standard output before it exited or was killed at the timeout
git(stdout) == TrimSpace(stdout)

\* the bytes git writes for an answer: the text and a newline, or nothing
Printed(text) == IF text = <<>> THEN <<>> ELSE text \o <<"\n">>

\* The repository around a directory of the model: its top level is the
\* directory's parent.
RootOf(dir) ==
    LET d == StripSlashes(dir) IN
    SubSeq(d, 1, Len(d) - Len(AfterLastSlash(d)) - 1)

ShortSha == <<"a", "b", "c", "1", "2", "3", "4">>

\* the reflog line git writes when a fetch moves the upstream ref at time t
FetchEntry(ref, t) ==
    ShortSha \o <<" ">> \o ref \o <<"@", "{">> \o Itoa(t) \o <<"}", ":">>
    \o <<" ", "f", "e", "t", "c", "h", ":", " ", "f", "a", "s", "t", "-",
         "f", "o", "r", "w", "a", "r", "d">>

VersionLine ==
    <<"s", "t", "a", "t", "u", "s", "l", "i", "n", "e", " ", "d", "e", "v", " ",
      "(", "b", "u", "i", "l", "t", ":", " ", "l", "o", "c", "a", "l", ")">>

NoBranch == <<"n", "o", "-", "b", "r", "a", "n", "c", "h">>

Detached == <<"(", "d", "e", "t", "a", "c", "h", "e", "d", ")">>

DetachedAt == <<"d", "e", "t", "a", "c", "h", "e", "d", "@">>

ZeroInfo ==
    [Project |-> <<>>, Branch |-> <<>>, Ahead |-> 0, Behind |-> 0,
     HasTracked |-> FALSE, HasUntracked |-> FALSE, IsGit |-> FALSE]

\* NewInfo that keeps the record of the process before
NewInfoKeptMutant(prev) == prev

\* collect, line 64: `var ri repoInfo` is the zero record, whatever the
\* process before this one held
NewInfo(prev) == ZeroInfo

\* the values main's and collect's variables hold before they are assigned
Fresh ==
    /\ pc = "start"
    /\ showVersion = FALSE
    /\ cwd = <<>> /\ root = <<>>
    /\ interval = I64(0)
    /\ gateUp = <<>> /\ gateReflog = <<>> /\ gate = "unset"
    /\ up = <<>> /\ status = <<>>
    /\ ri = ZeroInfo
    /\ cmds = <<>> /\ out = <<>>

\* main, lines 49-52
ShowVersion ==
    /\ pc = "start"
    /\ showVersion' = TRUE
    /\ out' = Append(out, VersionLine)
    /\ pc' = "done"
    /\ UNCHANGED <<inv, now, config, repo, repoReflog, cwd, root, interval,
                   gateUp, gateReflog, gate, up, status, ri, cmds>>

\* main, lines 54-59: readCwd, then os.Getwd when it gave nothing
ReadInput ==
    /\ pc = "start"
    /\ \E getwdOk \in BOOLEAN :
         cwd' = IF readCwd(stdin) # <<>> THEN readCwd(stdin)
                ELSE IF getwdOk THEN procDir ELSE <<>>
    /\ pc' = "root"
    /\ UNCHANGED <<inv, now, config, repo, repoReflog, showVersion, root,
                   interval, gateUp, gateReflog, gate, up, status, ri, cmds, out>>

\* fetchEnabled for any value that is set
fetchEnabledNonEmptyMutant == envFetch # <<>>

\* collect, line 74: os.Getenv("STATUSLINE_FETCH") == "1"
fetchEnabled == envFetch = One

\* afterRoot without the early return of line 69 when fetching is on
afterRootNoReturnMutant(resp) ==
    IF fetchEnabled THEN "gate"
    ELSE IF resp = <<>> THEN "print" ELSE "status"

\* collect, lines 68-74 and 83: where collect goes once root is known
afterRoot(resp) ==
    IF resp = <<>> THEN "print"
    ELSE IF fetchEnabled THEN "gate" ELSE "status"

\* collect, lines 64-72: root discovery.  git answers the top level, or
\* nothing (not a repository, an error, the timeout).
GitRoot ==
    /\ pc = "root"
    /\ \E stdout \in {<<>>, Printed(RootOf(EffectiveDir(cwd)))} :
        LET resp == git(stdout) IN
        /\ root' = resp
        /\ ri' = IF resp = <<>>
                 THEN [ri EXCEPT !.Project = Base(cwd)]
                 ELSE [ri EXCEPT !.Project = Base(resp), !.IsGit = TRUE]
        /\ pc' = afterRoot(resp)
        /\ cmds' = Append(cmds, Cmd(cwd, ArgsRoot, <<>>, resp))
    /\ UNCHANGED <<inv, now, config, repo, repoReflog, showVersion, cwd,
                   interval, gateUp, gateReflog, gate, up, status, out>>

\* shouldFetch, lines 219-224: the interval, then the upstream lookup
GateUpstream ==
    /\ pc = "gate"
    /\ interval' = getFetchInterval(envInterval)
    /\ \E stdout \in {<<>>, Printed(repoUpstream)} :
        LET resp == git(stdout) IN
        /\ gateUp' = resp
        /\ IF resp = <<>>
           THEN gate' = "true" /\ pc' = "up"
           ELSE gate' = gate /\ pc' = "reflog"
        /\ cmds' = Append(cmds, Cmd(root, ArgsUpstream, <<>>, resp))
    /\ UNCHANGED <<inv, now, config, repo, repoReflog, showVersion, cwd, root,
                   gateReflog, up, status, ri, out>>

\* shouldFetch, lines 226-241: the reflog lookup and the decision
GateReflog ==
    /\ pc = "reflog"
    /\ \E stdout \in {<<>>, Printed(repoReflog)} :
        LET resp == git(stdout) IN
        /\ gateReflog' = resp
        /\ IF reflogGate(resp, interval, now)
           THEN gate' = "true" /\ pc' = "up"
           ELSE gate' = "false" /\ pc' = "status"
        /\ cmds' = Append(cmds, Cmd(root, ArgsReflog, <<gateUp>>, resp))
    /\ UNCHANGED <<inv, now, config, repo, repoReflog, showVersion, cwd, root,
                   interval, gateUp, up, status, ri, out>>

\* hasRemote without the test of the number of parts
hasRemoteNonEmptyMutant(resp) == resp # <<>>

\* collect, lines 76-77: the upstream splits into a remote and a branch
hasRemote(resp) == resp # <<>> /\ Len(SplitN2(resp, "/")) = 2

\* collect, lines 75-77: the second upstream lookup
Upstream ==
    /\ pc = "up"
    /\ \E stdout \in {<<>>, Printed(repoUpstream)} :
        LET resp == git(stdout) IN
        /\ up' = resp
        /\ pc' = IF hasRemote(resp) THEN "fetch" ELSE "status"
        /\ cmds' = Append(cmds, Cmd(root, ArgsUpstream, <<>>, resp))
    /\ UNCHANGED <<inv, now, config, repo, repoReflog, showVersion, cwd, root,
                   interval, gateUp, gateReflog, gate, status, ri, out>>

\* collect, line 78: git fetch.  It fails or times out, finds nothing new, or
\* moves the upstream ref, which writes the ref's reflog.
Fetch ==
    /\ pc = "fetch"
    /\ \E outcome \in {"failed", "uptodate", "updated"} :
         repoReflog' = IF outcome = "updated" THEN FetchEntry(up, now)
                       ELSE repoReflog
    /\ cmds' = Append(cmds, Cmd(root, ArgsFetch, SplitN2(up, "/"), <<>>))
    /\ pc' = "status"
    /\ UNCHANGED <<inv, now, config, repo, showVersion, cwd, root, interval,
                   gateUp, gateReflog, gate, up, status, ri, out>>

\* branchOf without the default
branchOfKeepEmptyMutant(b) == b

\* collect, lines 86-88: the branch of a status output that names none
branchOf(b) == IF b = <<>> THEN NoBranch ELSE b

\* collect, lines 83-89: git status, parseStatus, the branch's default
GitStatus ==
    /\ pc = "status"
    /\ \E stdout \in {<<>>, Printed(repoStatus)} :
        LET resp == git(stdout)
            p == parseStatus(resp)
            b == branchOf(p.branch)
        IN /\ status' = resp
           /\ ri' = [ri EXCEPT !.Branch = b, !.Ahead = p.ahead,
                               !.Behind = p.behind,
                               !.HasTracked = p.hasTracked,
                               !.HasUntracked = p.hasUntracked]
           /\ pc' = IF b = Detached THEN "sha" ELSE "print"
           /\ cmds' = Append(cmds, Cmd(root, ArgsStatus, <<>>, resp))
    /\ UNCHANGED <<inv, now, config, repo, repoReflog, showVersion, cwd, root,
                   interval, gateUp, gateReflog, gate, up, out>>

\* collect, lines 89-93: the short sha of a detached HEAD
GitSha ==
    /\ pc = "sha"
    /\ \E stdout \in {<<>>, Printed(ShortSha)} :
         LET resp == git(stdout) IN
         /\ ri' = [ri EXCEPT !.Branch = IF resp # <<>> THEN DetachedAt \o resp
                                        ELSE ri.Branch]
         /\ cmds' = Append(cmds, Cmd(root, ArgsSha, <<>>, resp))
    /\ pc' = "print"
    /\ UNCHANGED <<inv, now, config, repo, repoReflog, showVersion, cwd, root,
                   interval, gateUp, gateReflog, gate, up, status, out>>

\* main, line 60: fmt.Println(render(...))
PrintLine ==
    /\ pc = "print"
    /\ out' = Append(out, render(ri, envNoColor))
    /\ pc' = "done"
    /\ UNCHANGED <<inv, now, config, repo, repoReflog, showVersion, cwd, root,
                   interval, gateUp, gateReflog, gate, up, status, ri, cmds>>

MaxInvocations == 2

TickShort == 30

TickLong == 90

\* The process has exited; the prompt is rendered again later, with the same
\* configuration, and a new process starts.
NextInvocation ==
    /\ pc = "done"
    /\ inv < MaxInvocations
    /\ inv' = inv + 1
    /\ \E d \in {TickShort, TickLong} : now' = now + d
    /\ pc' = "start"
    /\ showVersion' = FALSE
    /\ cwd' = <<>> /\ root' = <<>>
    /\ interval' = I64(0)
    /\ gateUp' = <<>> /\ gateReflog' = <<>> /\ gate' = "unset"
    /\ up' = <<>> /\ status' = <<>>
    /\ ri' = NewInfo(ri)
    /\ cmds' = <<>> /\ out' = <<>>
    /\ UNCHANGED <<config, repo, repoReflog>>

\* ------------------------------------------------ inputs

\* the sequences over S of length at most n
SeqsUpTo(S, n) == {<<>>} \cup UNION {[1..k -> S] : k \in 1..n}

StartClock == 100

RecentStamp == 70

OldStamp == 10

OriginMain == <<"o", "r", "i", "g", "i", "n", "/", "m", "a", "i", "n">>

LocalMain == <<"m", "a", "i", "n">>

\* a remote-tracking branch whose own name holds a slash
OriginFeature ==
    <<"o", "r", "i", "g", "i", "n", "/", "f", "e", "a", "t", "/", "x">>

\* upstreams: none, remote-tracking branches, a local branch
Upstreams == {<<>>, OriginMain, OriginFeature, LocalMain}

InvalidEntry ==
    <<"i", "n", "v", "a", "l", "i", "d", " ", "r", "e", "f", "l", "o", "g", " ",
      "e", "n", "t", "r", "y">>

\* a reflog line that records a push, not a fetch
PushEntry(ref, t) ==
    ShortSha \o <<" ">> \o ref \o <<"@", "{">> \o Itoa(t) \o <<"}", ":">>
    \o <<" ", "u", "p", "d", "a", "t", "e", " ", "b", "y", " ", "p", "u", "s", "h">>

\* a line that is not in git's form: the timestamp stands alone
BareEntry(t) ==
    ShortSha \o <<" ">> \o Itoa(t) \o <<" ", "f", "e", "t", "c", "h">>

Reflogs(ref) ==
    {<<>>, InvalidEntry, PushEntry(ref, RecentStamp), FetchEntry(ref, RecentStamp),
     FetchEntry(ref, OldStamp), BareEntry(RecentStamp)}

LineHead ==
    <<"#", " ", "b", "r", "a", "n", "c", "h", ".", "h", "e", "a", "d", " ",
      "m", "a", "i", "n">>

LineDetached ==
    <<"#", " ", "b", "r", "a", "n", "c", "h", ".", "h", "e", "a", "d", " ",
      "(", "d", "e", "t", "a", "c", "h", "e", "d", ")">>

LineAb == <<"#", " ", "b", "r", "a", "n", "c", "h", ".", "a", "b", " ", "+", "2", " ", "-", "1">>

LineAbZero == <<"#", " ", "b", "r", "a", "n", "c", "h", ".", "a", "b", " ", "+", "0", " ", "-", "0">>

LineOrdinary == <<"1", " ", ".", "M", " ", "f", ".", "g", "o">>

LineRenamed == <<"2", " ", "R", ".", " ", "b", ".", "g", "o", " ", "a", ".", "g", "o">>

LineUnmerged == <<"u", " ", "U", "U", " ", "c", ".", "g", "o">>

LineUntracked == <<"?", " ", "n", ".", "g", "o">>

LineBlank == <<" ", " ">>

\* branch.ab lines of one and of three fields, and one whose fields are a
\* number with a minus sign and a text with no leading digit
LineAbOne == <<"#", " ", "b", "r", "a", "n", "c", "h", ".", "a", "b", " ", "+", "3">>

LineAbThree == <<"#", " ", "b", "r", "a", "n", "c", "h", ".", "a", "b", " ", "+", "1", " ", "-", "2", " ", "+", "3">>

LineAbOdd == <<"#", " ", "b", "r", "a", "n", "c", "h", ".", "a", "b", " ", "-", "4", " ", "x", "7">>

\* TestParseStatusEdgeCases, "whitespace lines": two lines of white space
\* between the head line and the ab line
ChunkWhitespace ==
    LineHead \o <<"\n", "\t", "\t", "\n", " ", " ", " ", "\n">>
    \o <<"#", " ", "b", "r", "a", "n", "c", "h", ".", "a", "b", " ", "+", "1", " ", "-", "0">>

StatusText(lines) == Join(lines, <<"\n">>)

\* the statuses of the runs that vary everything else
MainStatuses ==
    {StatusText(<<LineHead, LineAb>>),
     StatusText(<<LineHead, LineOrdinary, LineUntracked>>),
     StatusText(<<LineDetached>>)}

StatusLines ==
    {LineHead, LineDetached, LineAb, LineAbZero, LineOrdinary, LineRenamed,
     LineUnmerged, LineUntracked, LineBlank, LineAbOne, LineAbThree, LineAbOdd,
     ChunkWhitespace}

MaxStatusLines == 2

AllStatuses == {StatusText(ls) : ls \in SeqsUpTo(StatusLines, MaxStatusLines)}

PaddedCwd == <<" ", "/", "w", "/", "a", "p", "p", "/", "s", "r", "c", " ">>

BlankText == <<" ", " ">>

ProcDir ==
    <<"/", "h", "o", "m", "e", "/", "u", "/", "p", "r", "o", "j", "/", "c", "m", "d">>

MainStdins ==
    {<<>>,
     <<Tok("lbrace"), Str(CwdKey), Tok("colon"), Str(PaddedCwd), Tok("rbrace")>>}

Tokens ==
    {Tok("lbrace"), Tok("rbrace"), Tok("colon"), Tok("num"),
     Str(CwdKey), Str(PaddedCwd), Str(BlankText)}

MaxTokens == 5

AllStdins == SeqsUpTo(Tokens, MaxTokens)

IntervalChars == {"0", "1", "5", "-", "+", ".", "a"}

MaxIntervalLen == 2

\* the largest number of minutes whose nanoseconds fit an int64, and the next
LongIntervals ==
    {<<"6", "0">>,
     <<"1", "5", "3", "7", "2", "2", "8", "6", "7">>,
     <<"1", "5", "3", "7", "2", "2", "8", "6", "8">>}

AllIntervals == SeqsUpTo(IntervalChars, MaxIntervalLen) \cup LongIntervals

MainIntervals == {<<>>, <<"1">>, <<"0">>}

\* the branch of TestRender's "long branch name shortened"
TestLongBranch ==
    <<"v", "e", "r", "y", "-", "l", "o", "n", "g", "-", "f", "e", "a", "t",
      "u", "r", "e", "-", "b", "r", "a", "n", "c", "h", "-", "n", "a", "m",
      "e", "-", "t", "h", "a", "t", "-", "e", "x", "c", "e", "e", "d", "s",
      "-", "m", "a", "x", "-", "l", "e", "n", "g", "t", "h">>

\* names of exactly maxBranchLen bytes, and of one byte more
BranchAtMax == SubSeq(TestLongBranch, 1, maxBranchLen)

BranchOverMax == SubSeq(TestLongBranch, 1, maxBranchLen + 1)

AccentCount == 25

\* A name outside ASCII: the letter U+00E9 is the two bytes 0xC3 0xA9 in
\* UTF-8, written "xC3" and "xA9"; AccentCount of them in a row.
AccentBranch ==
    [i \in 1..(2 * AccentCount) |-> IF i % 2 = 1 THEN "xC3" ELSE "xA9"]

Branches == {LocalMain, BranchAtMax, BranchOverMax, TestLongBranch, AccentBranch}

ProjectName == <<"m", "y", "p", "r", "o", "j", "e", "c", "t">>

ManyAhead == 12

\* the records render is called with: TestRender's, and the fields varied
Records ==
    [Project : {ProjectName, <<".">>},
     Branch : Branches,
     Ahead : {0, 2, ManyAhead},
     Behind : {0 - 1, 0, 1},
     HasTracked : BOOLEAN, HasUntracked : BOOLEAN, IsGit : BOOLEAN]

NoColorValues == {<<>>, One, <<"0">>}

\* ------------------------------------------------ specifications

InitCommon ==
    /\ inv = 1
    /\ now = StartClock
    /\ procDir = ProcDir
    /\ Fresh

\* every input varied a little
Init ==
    /\ InitCommon
    /\ envFetch \in {<<>>, One, <<"1", "1">>}
    /\ envInterval \in MainIntervals
    /\ envNoColor \in {<<>>, One}
    /\ stdin \in MainStdins
    /\ repoUpstream \in Upstreams
    /\ repoReflog \in IF repoUpstream = <<>> THEN {<<>>} ELSE Reflogs(repoUpstream)
    /\ repoStatus \in MainStatuses

Step ==
    \/ ShowVersion
    \/ ReadInput
    \/ GitRoot
    \/ GateUpstream
    \/ GateReflog
    \/ Upstream
    \/ Fetch
    \/ GitStatus
    \/ GitSha
    \/ PrintLine

Next == Step \/ NextInvocation

Spec == Init /\ [][Next]_vars

\* one invocation with fetching on, over many interval texts
InitInterval ==
    /\ InitCommon
    /\ envFetch = One
    /\ envInterval \in AllIntervals
    /\ envNoColor = <<>>
    /\ stdin = <<>>
    /\ repoUpstream = OriginMain
    /\ repoReflog \in {FetchEntry(OriginMain, RecentStamp), BareEntry(RecentStamp)}
    /\ repoStatus = StatusText(<<LineHead, LineAb>>)

NextInterval ==
    \/ ReadInput
    \/ GitRoot
    \/ GateUpstream
    \/ GateReflog
    \/ Upstream
    \/ Fetch
    \/ GitStatus
    \/ PrintLine

SpecInterval == InitInterval /\ [][NextInterval]_vars

\* one invocation with fetching off, over many status outputs
InitStatus ==
    /\ InitCommon
    /\ envFetch = <<>>
    /\ envInterval = <<>>
    /\ envNoColor \in {<<>>, One}
    /\ stdin = <<>>
    /\ repoUpstream = OriginMain
    /\ repoReflog = <<>>
    /\ repoStatus \in AllStatuses

NextStatus ==
    \/ ReadInput
    \/ GitRoot
    \/ GitStatus
    \/ GitSha
    \/ PrintLine

SpecStatus == InitStatus /\ [][NextStatus]_vars

\* input resolution and root discovery, over many standard inputs
InitInput ==
    /\ InitCommon
    /\ envFetch = <<>>
    /\ envInterval = <<>>
    /\ envNoColor = <<>>
    /\ stdin \in AllStdins
    /\ repoUpstream = OriginMain
    /\ repoReflog = <<>>
    /\ repoStatus = StatusText(<<LineHead, LineAb>>)

NextInput ==
    \/ ReadInput
    \/ GitRoot

SpecInput == InitInput /\ [][NextInput]_vars

\* render called on a record, as the tests call it
InitDirect ==
    /\ inv = 1
    /\ now = StartClock
    /\ procDir = ProcDir
    /\ pc = "print"
    /\ showVersion = FALSE
    /\ cwd = <<>> /\ root = <<>>
    /\ interval = I64(0)
    /\ gateUp = <<>> /\ gateReflog = <<>> /\ gate = "unset"
    /\ up = <<>> /\ status = <<>>
    /\ cmds = <<>> /\ out = <<>>
    /\ envFetch = <<>> /\ envInterval = <<>> /\ stdin = <<>>
    /\ repoUpstream = <<>> /\ repoReflog = <<>> /\ repoStatus = <<>>
    /\ envNoColor \in NoColorValues
    /\ ri \in Records

\* one invocation, or one call of render on a record
InitRender ==
    \/ InitDirect
    \/ /\ InitCommon
       /\ envFetch \in {<<>>, One}
       /\ envInterval = <<>>
       /\ envNoColor \in NoColorValues
       /\ stdin \in MainStdins
       /\ repoUpstream = OriginMain
       /\ repoReflog \in {<<>>, FetchEntry(OriginMain, RecentStamp)}
       /\ repoStatus \in MainStatuses

NextRender == Step

SpecRender == InitRender /\ [][NextRender]_vars

\* ------------------------------------------------ properties

\* what the invocation has run
Ran(args) == \E i \in 1..Len(cmds) : cmds[i].args = args

CountRan(args) == Cardinality({i \in 1..Len(cmds) : cmds[i].args = args})

\* shouldFetch has been entered by this invocation
GateEntered == pc = "reflog" \/ gate # "unset"

\* A reflog line in git's form, <sha> <ref>@{<unix-ts>}: <message>
StampField(line) == Fields(line)[2]

StampStart(line) == Index(StampField(line), <<"@", "{">>)

StampDigits(line) ==
    SubSeq(StampField(line), StampStart(line) + 2, Len(StampField(line)) - 2)

IsEntry(line) ==
    /\ Len(Fields(line)) >= 3
    /\ StampStart(line) > 1
    /\ Len(StampField(line)) >= StampStart(line) + 4
    /\ SubSeq(StampField(line), Len(StampField(line)) - 1, Len(StampField(line)))
         = <<"}", ":">>
    /\ AllDigits(StampDigits(line))

IsFetchEntry(line) == IsEntry(line) /\ HasPrefix(Fields(line)[3], FetchWord)

EntryTime(line) == DigitsValue(StampDigits(line), 0)

\* the interval the documentation gives a value of STATUSLINE_FETCH_INTERVAL,
\* in minutes, for an unset value or the digits of a positive number
IsPositiveDecimal(env) ==
    env # <<>> /\ AllDigits(env) /\ \E i \in 1..Len(env) : env[i] # "0"

Documented(env) == env = <<>> \/ IsPositiveDecimal(env)

DocumentedMinutes(env) ==
    IF env = <<>> THEN DefaultMinutes ELSE DigitsValue(env, 0)

\* C1: once the newest reflog entry of the upstream, as the invocation read
\* it, is a fetch entry younger than the interval, the gate answers false and
\* the invocation runs no git fetch.
C1_RateLimited ==
    ( /\ gate # "unset"
      /\ Documented(envInterval)
      /\ IsFetchEntry(gateReflog)
      /\ now - EntryTime(gateReflog) < DocumentedMinutes(envInterval) * 60 )
    => (gate = "false" /\ ~Ran(ArgsFetch))

\* C2: the gate answers true whenever the last fetch cannot be shown to be
\* recent: no upstream, no reflog output, a malformed line, a newest entry
\* that is not a fetch, or a fetch at least the interval old.
C2_DueUnlessRecent ==
    ( /\ gate # "unset"
      /\ Documented(envInterval)
      /\ \/ gateUp = <<>>
         \/ gateReflog = <<>>
         \/ ~IsEntry(gateReflog)
         \/ ~IsFetchEntry(gateReflog)
         \/ now - EntryTime(gateReflog) >= DocumentedMinutes(envInterval) * 60 )
    => gate = "true"

\* C3: STATUSLINE_FETCH_INTERVAL=0 gives the interval 0s, and with it the
\* gate answers true whatever the reflog says.
C3_ZeroMeansAlways ==
    (GateEntered /\ envInterval = <<"0">>)
    => (interval = I64(0) /\ gate \in {"unset", "true"})

\* n minutes as an exact number of nanoseconds, sixteen limbs wide
ExactMinutes(n) == MulW(I64(n), Minute, 2 * Width64)

Widened(d) == d \o [i \in 1..Width64 |-> 0]

IsDefaulted(env) ==
    \/ env = <<>>
    \/ Head(env) = "-" /\ Len(env) > 1 /\ AllDigits(Tail(env))
    \/ \E i \in 1..Len(env) : ~IsDigit(env[i]) /\ ~(i = 1 /\ env[i] \in {"+", "-"})

\* C4: getFetchInterval returns n minutes for the decimal text of a positive
\* integer n, 30 minutes for an unset, empty, negative, non-numeric or
\* non-integer value, and never a negative duration.
C4_IntervalMinutes ==
    GateEntered =>
      /\ IsPositiveDecimal(envInterval) =>
           Widened(interval) = ExactMinutes(DigitsValue(envInterval, 0))
      /\ IsDefaulted(envInterval) => interval = Mul64(I64(DefaultMinutes), Minute)
      /\ ~IsNeg64(interval)

\* C5: unless STATUSLINE_FETCH is exactly "1", the invocation runs only root
\* discovery, status and, for a detached HEAD, the short-sha lookup.
C5_FetchOptIn ==
    envFetch # <<"1">> =>
      \A i \in 1..Len(cmds) :
        /\ cmds[i].args \in {ArgsRoot, ArgsStatus, ArgsSha}
        /\ cmds[i].args = ArgsSha => parseStatus(status).branch = Detached

C5_Witness ==
    /\ pc = "done"
    /\ envFetch = <<"1", "1">>
    /\ Len(cmds) = 3
    /\ cmds[3].args = ArgsSha

\* C6: root discovery is the first subprocess; a fetch runs only with a root
\* and before status; status runs once for a repository, and the record is
\* what parseStatus makes of its output.
C6_Order ==
    /\ cmds # <<>> => cmds[1].args = ArgsRoot
    /\ CountRan(ArgsRoot) <= 1
    /\ CountRan(ArgsStatus) <= 1
    /\ \A i \in 1..Len(cmds) :
         cmds[i].args = ArgsFetch =>
           /\ root # <<>>
           /\ \A j \in 1..i : cmds[j].args # ArgsStatus
    /\ (pc \in {"print", "done"} /\ ~showVersion) =>
         /\ ri.IsGit <=> CountRan(ArgsStatus) = 1
         /\ ri.IsGit =>
              /\ cmds[Len(cmds)].args \in {ArgsStatus, ArgsSha}
              /\ ri.Ahead = parseStatus(status).ahead
              /\ ri.Behind = parseStatus(status).behind
              /\ ri.HasTracked = parseStatus(status).hasTracked
              /\ ri.HasUntracked = parseStatus(status).hasUntracked

C6_Witness ==
    /\ pc = "done"
    /\ Len(cmds) = 6
    /\ cmds[5].args = ArgsFetch
    /\ cmds[6].args = ArgsStatus
    /\ ri.Ahead = 2

\* the places where main has a next step to take; each step's only guard is
\* its place
Running ==
    {"start", "root", "gate", "reflog", "up", "fetch", "status", "sha", "print"}

\* C7: whatever stdin and the git subprocesses do, the invocation goes on to
\* print exactly one line, and the line starts with a project name that is
\* not empty.
C7_AlwaysRenders ==
    /\ pc # "done" => (out = <<>> /\ pc \in Running)
    /\ Len(cmds) <= 7
    /\ (pc = "done" /\ ~showVersion) =>
         /\ Len(out) = 1
         /\ ri.Project # <<>>
         /\ HasPrefix(out[1], ri.Project)
         /\ \A i \in 1..Len(out[1]) : out[1][i] # "\n"

C7_Witness ==
    /\ pc = "done"
    /\ cwd = <<>>
    /\ root = <<>>
    /\ out = << <<".">> >>

\* the JSON object's "cwd" members that hold a string
CwdMembers(ts) ==
    {i \in 2..(Len(ts) - 2) :
       /\ i % 4 = 2
       /\ ts[i] = Str(CwdKey)
       /\ ts[i + 2].t = "str"}

HasCwd(ts) == ValidJSON(ts) /\ ts[1].t = "lbrace" /\ CwdMembers(ts) # {}

RawCwd(ts) ==
    ts[(CHOOSE i \in CwdMembers(ts) : \A j \in CwdMembers(ts) : j <= i) + 2].v

\* t is raw without the white space around it
IsTrimOf(t, raw) ==
    \E a, b \in 0..Len(raw) :
      /\ a + b <= Len(raw)
      /\ t = SubSeq(raw, a + 1, Len(raw) - b)
      /\ \A k \in 1..a : IsSpace(raw[k])
      /\ \A k \in (Len(raw) - b + 1)..Len(raw) : IsSpace(raw[k])
      /\ t # <<>> => (~IsSpace(t[1]) /\ ~IsSpace(t[Len(t)]))

IsChangedEntry(ln) ==
    \/ HasPrefix(ln, <<"1", " ">>)
    \/ HasPrefix(ln, <<"2", " ">>)
    \/ HasPrefix(ln, <<"u", " ">>)
    \/ HasPrefix(ln, <<"?", " ">>)

HasChangedEntry(text) ==
    \E i \in 1..Len(Split(text, "\n")) : IsChangedEntry(Split(text, "\n")[i])

BoldStart == <<"ESC", "[", "1", ";">>

Occurrences(line, sub) ==
    {i \in 1..(Len(line) - Len(sub) + 1) : SubSeq(line, i, i + Len(sub) - 1) = sub}

\* the colour code between the bold introducer and the icon
IconColour(line) ==
    SubSeq(line, Index(line, BoldStart) + Len(BoldStart),
           Index(line, <<"m", "ICON">>) - 1)

\* C9: a status output with a changed entry (ordinary, renamed, unmerged or
\* untracked) never renders a green icon.
C9_GreenMeansClean ==
    ( /\ pc = "done"
      /\ ri.IsGit
      /\ envNoColor # <<"1">>
      /\ HasChangedEntry(status) )
    => IconColour(out[1]) # colGreen

C11_OutsideRepo ==
    /\ (Ran(ArgsRoot) /\ root = <<>>) =>
         /\ pc \in {"print", "done"}
         /\ Len(cmds) = 1
         /\ ri = [ZeroInfo EXCEPT !.Project = Base(cwd)]
    /\ (pc = "done" /\ ~showVersion /\ ~ri.IsGit) =>
         /\ out = <<ri.Project>>
         /\ \A i \in 1..Len(out[1]) : out[1][i] \notin {"ESC", "ICON", "UP", "DOWN"}

C11_Witness ==
    /\ pc = "done"
    /\ envFetch = One
    /\ Len(cmds) = 1
    /\ cmds[1].resp = <<>>
    /\ cwd = <<"/", "w", "/", "a", "p", "p", "/", "s", "r", "c">>
    /\ out = << <<"s", "r", "c">> >>

\* <project> on <icon> <shortened branch>, then the markers of the positive
\* counts, with nothing added
PlainLine(r) ==
    r.Project \o <<" ", "o", "n", " ", "ICON", " ">>
    \o shorten(r.Branch, maxBranchLen)
    \o (IF r.Ahead > 0 THEN <<" ", "UP">> \o Itoa(r.Ahead) ELSE <<>>)
    \o (IF r.Behind > 0 THEN <<" ", "DOWN">> \o Itoa(r.Behind) ELSE <<>>)

Colours == {colGreen, colYellow, colRed}

ReturnedUnchanged ==
    \A col \in Colours :
      /\ colorize(ri.Branch, col, envNoColor) = ri.Branch
      /\ colorizeBold(ri.Branch, col, envNoColor) = ri.Branch

\* C12 as stated: with STATUSLINE_NO_COLOR=1 the output for every record is
\* the plain line, and colorize and colorizeBold return their text unchanged.
C12_PlainForEveryRecord ==
    (pc = "done" /\ ~showVersion /\ envNoColor = <<"1">>) =>
      /\ out = <<PlainLine(ri)>>
      /\ ReturnedUnchanged

\* C12, amended: with STATUSLINE_NO_COLOR=1 the output for every record with
\* IsGit true is the plain line, no output holds an escape sequence, and
\* colorize and colorizeBold return their text unchanged.
C12_PlainForRepository ==
    (pc = "done" /\ ~showVersion /\ envNoColor = <<"1">>) =>
      /\ ri.IsGit => out = <<PlainLine(ri)>>
      /\ \A i \in 1..Len(out[1]) : out[1][i] # "ESC"
      /\ ReturnedUnchanged

C12_Witness ==
    /\ pc = "done"
    /\ envNoColor = <<"1">>
    /\ ri.IsGit /\ ri.HasUntracked
    /\ ri.Ahead = 2 /\ ri.Behind = 1
    /\ out = <<ProjectName \o <<" ", "o", "n", " ", "ICON", " ">> \o LocalMain
              \o <<" ", "UP", "2", " ", "DOWN", "1">> >>

\* the line up to the end of the branch name
LineHeadPart ==
    ri.Project \o <<" ", "o", "n", " ">>
    \o colorizeBold(<<"ICON">>, iconCol(ri), envNoColor) \o <<" ">>
    \o shorten(ri.Branch, maxBranchLen)

\* what follows the branch name
LineTail == SubSeq(out[1], Len(LineHeadPart) + 1, Len(out[1]))

\* a marker: the arrow and the count, in its colour unless colours are off
Marker(sym, n, col) ==
    IF envNoColor = <<"1">> THEN <<sym>> \o Itoa(n)
    ELSE <<"ESC", "[">> \o col \o <<"m", sym>> \o Itoa(n) \o <<"ESC", "[", "0", "m">>

\* C13: a repository's line holds the ahead marker iff Ahead > 0 and the
\* behind marker iff Behind > 0, each after one space, the ahead marker
\* (green) before the behind marker (red), right after the branch name.
C13_Arrows ==
    (pc = "done" /\ ~showVersion /\ ri.IsGit) =>
      /\ HasPrefix(out[1], LineHeadPart)
      /\ Contains(LineTail, <<"UP">>) <=> ri.Ahead > 0
      /\ Contains(LineTail, <<"DOWN">>) <=> ri.Behind > 0
      /\ LineTail =
           (IF ri.Ahead > 0 THEN <<" ">> \o Marker("UP", ri.Ahead, colGreen) ELSE <<>>)
           \o (IF ri.Behind > 0 THEN <<" ">> \o Marker("DOWN", ri.Behind, colRed)
               ELSE <<>>)

C13_Witness ==
    /\ pc = "done"
    /\ ri.IsGit
    /\ envNoColor = <<>>
    /\ ri.Ahead = ManyAhead /\ ri.Behind = 1
    /\ LineTail = <<" ", "ESC", "[">> \o colGreen \o <<"m", "UP">> \o Itoa(ManyAhead)
                  \o <<"ESC", "[", "0", "m", " ", "ESC", "[">> \o colRed
                  \o <<"m", "DOWN", "1", "ESC", "[", "0", "m">>

\* a byte that continues a UTF-8 character (0x80..0xBF)
IsContinuation(b) == b = "xA9"

\* the number of characters of a UTF-8 text
Chars(s) == Cardinality({i \in 1..Len(s) : ~IsContinuation(s[i])})

\* the first n characters of a UTF-8 text
FirstChars(s, n) ==
    LET ends == {k \in 0..Len(s) :
                   /\ Chars(SubSeq(s, 1, k)) <= n
                   /\ k < Len(s) => ~IsContinuation(s[k + 1])}
    IN SubSeq(s, 1, CHOOSE k \in ends : \A j \in ends : j <= k)

Ellipsis == <<".", ".", ".">>

\* the branch as the line shows it: between the icon and the markers
ShownBranch ==
    SubSeq(out[1],
           Len(ri.Project) + 4
             + Len(colorizeBold(<<"ICON">>, iconCol(ri), envNoColor)) + 2,
           Len(out[1]) - Len(arrows(ri, envNoColor)))

\* C14: shorten(s, max) is s when len(s) <= max or max <= 4, else the first
\* max-3 bytes of s and "...", never longer than max when max > 4; and the
\* line shows a branch longer than 48 as its first 45 characters and "...".
C14_Truncation ==
    (pc = "done" /\ ~showVersion /\ ri.IsGit) =>
      /\ \A maxLen \in 0..(maxBranchLen + 1) :
           LET r == shorten(ri.Branch, maxLen) IN
           /\ IF Len(ri.Branch) <= maxLen \/ maxLen <= 4
              THEN r = ri.Branch
              ELSE r = SubSeq(ri.Branch, 1, maxLen - 3) \o Ellipsis
           /\ maxLen > 4 => Len(r) <= maxLen
      /\ ShownBranch =
           IF Chars(ri.Branch) > maxBranchLen
           THEN FirstChars(ri.Branch, maxBranchLen - 3) \o Ellipsis
           ELSE ri.Branch

\* the lines of a status output, each without the white space around it
TrimmedLines(text) ==
    LET raw == Split(text, "\n") IN [i \in 1..Len(raw) |-> TrimSpace(raw[i])]

\* the places of the lines that start with p
StartsWith(lines, p) == {i \in 1..Len(lines) : HasPrefix(lines[i], p)}

Last(S) == CHOOSE i \in S : \A j \in S : j <= i

\* the trimmed text after `# branch.head ` of the (last) head line, or empty
HeadText(text) ==
    LET lines == TrimmedLines(text)
        heads == StartsWith(lines, BranchHead \o <<" ">>)
    IN IF heads = {} THEN <<>>
       ELSE LET ln == lines[Last(heads)] IN
            TrimSpace(SubSeq(ln, Len(BranchHead) + 2, Len(ln)))

RECURSIVE Reverse(_)
Reverse(q) == IF q = <<>> THEN <<>> ELSE Reverse(Tail(q)) \o <<Head(q)>>

NotBlank(ln) == TrimSpace(ln) # <<>>

\* the same lines in the opposite order, and without the blank ones
Reversed(text) == StatusText(Reverse(Split(text, "\n")))

Unblanked(text) == StatusText(SelectSeq(Split(text, "\n"), NotBlank))

\* C15: of the status output the invocation read, the branch is the trimmed
\* text after `# branch.head ` (empty without such a line), HasUntracked
\* holds iff a line starts with `? `, HasTracked iff a line starts with `1 `
\* or `2 `, header lines set neither, and neither the order of the lines nor
\* blank lines change the result.
C15_Classification ==
    (Ran(ArgsStatus) /\ pc \in {"sha", "print", "done"}) =>
      LET p == parseStatus(status)
          q == parseStatus(Reversed(status))
          lines == TrimmedLines(status)
          onlyHeaders == \A i \in 1..Len(lines) :
                            lines[i] = <<>> \/ HasPrefix(lines[i], <<"#">>)
      IN /\ p.branch = HeadText(status)
         /\ ri.HasUntracked <=> StartsWith(lines, <<"?", " ">>) # {}
         /\ ri.HasTracked <=>
              StartsWith(lines, <<"1", " ">>) \cup StartsWith(lines, <<"2", " ">>) # {}
         /\ onlyHeaders => (~ri.HasTracked /\ ~ri.HasUntracked)
         /\ parseStatus(Unblanked(status)) = p
         /\ q.hasTracked = p.hasTracked
         /\ q.hasUntracked = p.hasUntracked
         /\ Cardinality(StartsWith(lines, BranchHead \o <<" ">>)) <= 1 =>
              q.branch = p.branch

C15_Witness ==
    /\ pc = "done"
    /\ status = StatusText(<<LineUntracked, ChunkWhitespace>>)
    /\ ri.HasUntracked /\ ~ri.HasTracked
    /\ ri.Branch = LocalMain
    /\ ri.Ahead = 1

\* the fields of a `# branch.ab` line, after the header
AbFields(ln) == Fields(SubSeq(ln, Len(BranchAb) + 1, Len(ln)))

\* the places of the branch.ab lines that have exactly two fields
TwoFieldAbs(lines) ==
    {i \in StartsWith(lines, BranchAb \o <<" ">>) : Len(AbFields(lines[i])) = 2}

DropSign(f) == IF f # <<>> /\ f[1] \in {"+", "-"} THEN Tail(f) ELSE f

\* the value of the leading decimal digits of a text, 0 when it has none
LeadingValue(f) ==
    LET k == Last({j \in 0..Len(f) : AllDigits(SubSeq(f, 1, j))}) IN
    DigitsValue(SubSeq(f, 1, k), 0)

C17_BranchNeverEmpty ==
    (pc \in {"print", "done"} /\ ~showVersion /\ ri.IsGit) =>
      LET h == HeadText(status)
          sha == cmds[Len(cmds)].resp
      IN /\ ri.Branch # <<>>
         /\ h = <<>> => ri.Branch = NoBranch
         /\ h = Detached =>
              /\ cmds[Len(cmds)].args = ArgsSha
              /\ ri.Branch = IF sha # <<>> THEN DetachedAt \o sha ELSE Detached
         /\ h \notin {<<>>, Detached} => ri.Branch = h

C17_Witness ==
    /\ pc = "done"
    /\ ri.IsGit
    /\ cmds[Len(cmds)].args = ArgsStatus
    /\ status = <<>>
    /\ ri.Branch = NoBranch

\* two calls of git are the same command: directory and arguments agree
SameCommand(a, b) == a.dir = b.dir /\ a.args = b.args /\ a.extra = b.extra

\* C18: an invocation issues no git command twice; in particular a command
\* that returned nothing (it failed, timed out or printed nothing) is not
\* issued again.
C18_NoRepeat ==
    \A i, j \in 1..Len(cmds) :
      i < j => ~SameCommand(cmds[i], cmds[j])

\* the git state an invocation can touch
gitState == <<repoUpstream, repoReflog, repoStatus>>

Words(args) == {args[k] : k \in 1..Len(args)}

\* C19: no step of an invocation changes the repository's refs or reflog,
\* and every git fetch it issues has --dry-run among its arguments.
C19_GitStateUnchanged ==
    [][ /\ UNCHANGED gitState
        /\ \A i \in 1..Len(cmds') :
             cmds'[i].args[1] = "fetch" => "--dry-run" \in Words(cmds'[i].args)
      ]_vars

\* what the subprocess with these arguments returned, nothing if none ran
Response(args) ==
    IF Ran(args)
    THEN cmds[CHOOSE i \in 1..Len(cmds) : cmds[i].args = args].resp
    ELSE <<>>

\* the record that follows from the working directory and the responses of
\* root discovery, status and the short-sha lookup, and from nothing else
RecordOf(dir, rootResp, statusResp, shaResp) ==
    IF rootResp = <<>> THEN [ZeroInfo EXCEPT !.Project = Base(dir)]
    ELSE LET p == parseStatus(statusResp)
             b == IF p.branch = <<>> THEN NoBranch ELSE p.branch
         IN [Project |-> Base(rootResp),
             Branch |-> IF b = Detached /\ shaResp # <<>>
                        THEN DetachedAt \o shaResp ELSE b,
             Ahead |-> p.ahead, Behind |-> p.behind,
             HasTracked |-> p.hasTracked, HasUntracked |-> p.hasUntracked,
             IsGit |-> TRUE]

\* C20: the line an invocation prints is a function of its standard input,
\* its environment, the process's directory and the responses of its git
\* subprocesses: whatever ran before, the same inputs give the same line.
C20_Independent ==
    (pc = "done" /\ ~showVersion) =>
      /\ cwd \in (IF readCwd(stdin) # <<>> THEN {readCwd(stdin)} ELSE {procDir, <<>>})
      /\ out = <<render(RecordOf(cwd, Response(ArgsRoot), Response(ArgsStatus),
                                 Response(ArgsSha)),
                        envNoColor)>>

C20_Witness ==
    /\ pc = "done"
    /\ inv = 2
    /\ repoReflog = FetchEntry(OriginMain, StartClock)
    /\ Response(ArgsRoot) = <<>>
    /\ out = << <<"s", "r", "c">> >>

\* collect has made its upstream lookup and gone on
PastLookup == gate = "true" /\ pc \in {"fetch", "status", "sha", "print", "done"}

\* C21: a git fetch follows an upstream lookup that returned a name with a
\* slash, and its arguments are the text before the first slash as remote
\* and all the text after it as branch; when the lookup returned nothing or a
\* name without a slash no fetch is run, although the gate answered true.
C21_FetchNeedsRemote ==
    /\ \A i \in 1..Len(cmds) :
         cmds[i].args = ArgsFetch =>
           /\ i > 1
           /\ cmds[i - 1].args = ArgsUpstream
           /\ Contains(cmds[i - 1].resp, <<"/">>)
           /\ Len(cmds[i].extra) = 2
           /\ ~Contains(cmds[i].extra[1], <<"/">>)
           /\ cmds[i].extra[1] \o <<"/">> \o cmds[i].extra[2] = cmds[i - 1].resp
    /\ (PastLookup /\ ~Contains(up, <<"/">>)) =>
         (pc # "fetch" /\ ~Ran(ArgsFetch))

C21_Witness ==
    /\ pc = "done"
    /\ gate = "true"
    /\ gateUp = LocalMain
    /\ up = LocalMain
    /\ CountRan(ArgsUpstream) = 2
    /\ ~Ran(ArgsFetch)

====
